---- MODULE Spec2Model ----
(***************************************************************************)
(* Model of RA.py: the Streamlit front end for Riksarkivet's HTR Flow.     *)
(* One session of the app is a sequence of script runs of main(); every    *)
(* run creates a fresh temporary workspace, writes the default pipeline    *)
(* configuration, optionally replaces it by the user's document, stores    *)
(* the uploaded image and, on request, transcribes it either with the      *)
(* generated MockTranscriber (demo mode) or with run_transcription, and    *)
(* finally looks the output file up.                                       *)
(*                                                                         *)
(* The values the widgets return (checkboxes, text area, buttons, uploader) *)
(* are inputs of each run.  tempfile.mkdtemp gives every run a directory   *)
(* no earlier run has used and the code only touches paths below it, so    *)
(* the file system is modelled for the workspace of the current run.  The  *)
(* engine (htrflow as a library or as a command) is the environment: its   *)
(* exceptions, exit status, streams and output files are inputs.           *)
(*                                                                         *)
(* Strings on which the code works character by character (paths, file     *)
(* names, YAML scalars) are sequences of one-character strings; file       *)
(* contents written with encoding="utf-8" are sequences of bytes; texts    *)
(* are sequences of code points.                                           *)
(***************************************************************************)
EXTENDS Integers, Sequences, FiniteSets, TLC

(* ------------------------------ bounds -------------------------------- *)

\* Number of script runs (reruns of main) of one session that are explored.
MaxRuns == 2

(* ------------------------- strings and paths --------------------------- *)

\* ord(c) for the characters that occur in the modelled strings.
OrdTable ==
  " " :> 32 @@ "-" :> 45 @@ "." :> 46 @@ "/" :> 47 @@ "0" :> 48 @@ "1" :> 49 @@ "2" :> 50 @@
  "3" :> 51 @@ "4" :> 52 @@ "5" :> 53 @@ "6" :> 54 @@ "7" :> 55 @@ "8" :> 56 @@ "9" :> 57 @@
  "C" :> 67 @@ "E" :> 69 @@ "L" :> 76 @@ "O" :> 79 @@ "R" :> 82 @@ "S" :> 83 @@ "T" :> 84 @@
  "[" :> 91 @@ "]" :> 93 @@ "_" :> 95 @@ "a" :> 97 @@ "b" :> 98 @@ "c" :> 99 @@ "d" :> 100 @@
  "e" :> 101 @@ "f" :> 102 @@ "g" :> 103 @@ "h" :> 104 @@ "i" :> 105 @@ "j" :> 106 @@ "k" :> 107 @@
  "l" :> 108 @@ "m" :> 109 @@ "n" :> 110 @@ "o" :> 111 @@ "p" :> 112 @@ "r" :> 114 @@ "s" :> 115 @@
  "t" :> 116 @@ "u" :> 117 @@ "v" :> 118 @@ "w" :> 119 @@ "x" :> 120 @@ "y" :> 121

Ord(c) == OrdTable[c]

RECURSIVE SumOrd(_)
\* sum(ord(c) for c in s)
SumOrd(s) == IF s = <<>> THEN 0 ELSE Ord(Head(s)) + SumOrd(Tail(s))

\* s.rfind(c), 1-based; 0 when c does not occur.
RFind(s, c) ==
  LET I == {i \in 1..Len(s) : s[i] = c}
  IN  IF I = {} THEN 0 ELSE CHOOSE i \in I : \A j \in I : j <= i

\* os.path.join(a, b) on a POSIX system.
PathJoin(a, b) ==
  IF b # <<>> /\ b[1] = "/" THEN b
  ELSE IF a = <<>> \/ a[Len(a)] = "/" THEN a \o b
  ELSE a \o <<"/">> \o b

\* os.path.basename(p)
Basename(p) == SubSeq(p, RFind(p, "/") + 1, Len(p))

\* os.path.dirname(p), for paths with a non-root directory part.
Dirname(p) == SubSeq(p, 1, RFind(p, "/") - 1)

\* os.path.splitext(p)[0]: the extension starts at the last dot of the last
\* component, unless only dots precede it in that component.
SplitextRoot(p) ==
  LET sepIndex == RFind(p, "/")
      dotIndex == RFind(p, ".")
  IN  IF dotIndex > sepIndex
         /\ \E k \in (sepIndex + 1)..(dotIndex - 1) : p[k] # "."
      THEN SubSeq(p, 1, dotIndex - 1)
      ELSE p

\* p lies below directory d.
IsUnder(p, d) ==
  /\ Len(p) > Len(d) + 1
  /\ SubSeq(p, 1, Len(d)) = d
  /\ p[Len(d) + 1] = "/"

TxtSuffix == <<".", "t", "x", "t">>

(* ------------------------------ UTF-8 ---------------------------------- *)

\* The bytes of one code point (the texts stay below U+0800).
EncodeChar(cp) ==
  IF cp < 128 THEN <<cp>>
  ELSE <<192 + (cp \div 64), 128 + (cp % 64)>>

RECURSIVE Utf8Encode(_)
\* f.write(text) on a file opened with encoding="utf-8"; the text is
\* encoded half by half.
Utf8Encode(text) ==
  IF text = <<>> THEN <<>>
  ELSE IF Len(text) = 1 THEN EncodeChar(text[1])
  ELSE Utf8Encode(SubSeq(text, 1, Len(text) \div 2))
         \o Utf8Encode(SubSeq(text, Len(text) \div 2 + 1, Len(text)))

IsLead(b) == b >= 194 /\ b < 224

IsContinuation(b) == b >= 128 /\ b < 192

\* The bytes are well-formed UTF-8 (one- and two-byte sequences): every
\* lead byte is followed by a continuation byte, every continuation byte
\* follows a lead byte, and no other byte above 127 occurs.
Utf8Valid(bytes) ==
  \A i \in 1..Len(bytes) :
    \/ bytes[i] < 128
    \/ IsLead(bytes[i]) /\ i < Len(bytes) /\ IsContinuation(bytes[i + 1])
    \/ IsContinuation(bytes[i]) /\ i > 1 /\ IsLead(bytes[i - 1])

RECURSIVE Utf8Decode(_)
\* f.read() on a file opened with encoding="utf-8", for well-formed bytes;
\* the bytes are decoded half by half, split between two characters.
Utf8Decode(bytes) ==
  IF bytes = <<>> THEN <<>>
  ELSE IF Len(bytes) = 1 THEN <<bytes[1]>>
  ELSE IF Len(bytes) = 2 /\ IsLead(bytes[1])
  THEN <<(bytes[1] - 192) * 64 + (bytes[2] - 128)>>
  ELSE LET m == Len(bytes) \div 2
           s == IF IsContinuation(bytes[m + 1]) THEN m + 1 ELSE m
       IN  Utf8Decode(SubSeq(bytes, 1, s)) \o Utf8Decode(SubSeq(bytes, s + 1, Len(bytes)))

(* ------------------------------- YAML ---------------------------------- *)

\* Python values of a loaded document: strings, None, dicts (in insertion
\* order, as a sequence of key/value items) and lists.
Str(s) == [tag |-> "str", s |-> s]

Null == [tag |-> "null"]

Map(items) == [tag |-> "map", items |-> items]

List(items) == [tag |-> "seq", items |-> items]

Item(k, v) == [k |-> k, v |-> v]

\* d.get(key): the value of the last item with that key, None when absent
\* or when d is not a dict.
Get(d, key) ==
  IF d.tag # "map" THEN Null
  ELSE LET I == {i \in 1..Len(d.items) : d.items[i].k = key}
       IN  IF I = {} THEN Null
           ELSE d.items[CHOOSE i \in I : \A j \in I : j <= i].v

\* key in d
HasKey(d, key) ==
  d.tag = "map" /\ \E i \in 1..Len(d.items) : d.items[i].k = key

\* A document in block style is a sequence of lines "key: value"; ind is the
\* column of the key, dash tells that "- " precedes it (a list item starts),
\* hasVal that a scalar follows the colon.
Line(ind, dash, key, hasVal, val) ==
  [ind |-> ind, dash |-> dash, key |-> key, hasVal |-> hasVal, val |-> val]

RECURSIVE DumpMap(_, _)
RECURSIVE DumpSeq(_, _)
\* yaml.dump(..., default_flow_style=False, sort_keys=False) of one item of
\* a dict whose keys stand in column ind.
DumpItem(it, ind, dash) ==
  CASE it.v.tag = "str"  -> <<Line(ind, dash, it.k, TRUE, it.v.s)>>
    [] it.v.tag = "null" -> <<Line(ind, dash, it.k, TRUE, <<"n", "u", "l", "l">>)>>
    [] it.v.tag = "map"  -> <<Line(ind, dash, it.k, FALSE, <<>>)>>
                              \o DumpMap(it.v.items, ind + 2)
    [] it.v.tag = "seq"  -> <<Line(ind, dash, it.k, FALSE, <<>>)>>
                              \o DumpSeq(it.v.items, ind + 2)

DumpMap(items, ind) ==
  IF items = <<>> THEN <<>>
  ELSE DumpItem(Head(items), ind, FALSE) \o DumpMap(Tail(items), ind)

\* A list of dicts: the first key of every dict follows the dash.
DumpSeq(dicts, ind) ==
  IF dicts = <<>> THEN <<>>
  ELSE DumpItem(Head(Head(dicts).items), ind, TRUE)
         \o DumpMap(Tail(Head(dicts).items), ind)
         \o DumpSeq(Tail(dicts), ind)

\* yaml.dump of a dict
YamlDump(d) == DumpMap(d.items, 0)

\* The positions in S in ascending order.
Ascending(S) ==
  [k \in 1..Cardinality(S) |->
     CHOOSE i \in S : Cardinality({j \in S : j < i}) = k - 1]

\* The lines from line i up to the line before the next position of S.
Chunk(lines, S, i) ==
  LET later == {j \in S : j > i}
      last  == IF later = {} THEN Len(lines)
               ELSE (CHOOSE j \in later : \A m \in later : j <= m) - 1
  IN  SubSeq(lines, i, last)

KeyLines(lines, col) == {i \in 1..Len(lines) : lines[i].ind = col}

DashLines(lines, col) ==
  {i \in 1..Len(lines) : lines[i].ind = col /\ lines[i].dash}

\* A scalar that opens a flow collection must close it again.
ScalarOk(val) ==
  \/ val = <<>>
  \/ val[1] \notin {"[", "{"}
  \/ val \in {<<"[", "]">>, <<"{", "}">>}

RECURSIVE MapOk(_, _, _)
RECURSIVE SeqOk(_, _)
\* The value after "key:" is well formed.
ValueOk(line, kids, col) ==
  IF line.hasVal THEN kids = <<>> /\ ScalarOk(line.val)
  ELSE \/ kids = <<>>
       \/ /\ kids[1].dash
          /\ SeqOk(kids, kids[1].ind)
       \/ /\ ~kids[1].dash
          /\ kids[1].ind > col
          /\ MapOk(kids, kids[1].ind, FALSE)

\* The lines are a block mapping with its keys in column col (the mapping
\* of a list item when item holds).
MapOk(lines, col, item) ==
  /\ lines # <<>>
  /\ lines[1].ind = col
  /\ lines[1].dash = item
  /\ \A i \in 1..Len(lines) : lines[i].ind >= col
  /\ \A i \in KeyLines(lines, col) :
       /\ i > 1 => ~lines[i].dash
       /\ ValueOk(lines[i], Tail(Chunk(lines, KeyLines(lines, col), i)), col)

\* The lines are a block sequence of mappings.
SeqOk(lines, col) ==
  /\ lines # <<>>
  /\ lines[1].ind = col
  /\ lines[1].dash
  /\ \A i \in 1..Len(lines) : lines[i].ind >= col
  /\ \A i \in DashLines(lines, col) :
       MapOk(Chunk(lines, DashLines(lines, col), i), col, TRUE)

RECURSIVE ParseMap(_, _)
RECURSIVE ParseSeq(_, _)
ParseValue(line, kids) ==
  IF line.hasVal
  THEN IF line.val = <<"n", "u", "l", "l">> THEN Null
       ELSE IF line.val = <<"[", "]">> THEN List(<<>>)
       ELSE IF line.val = <<"{", "}">> THEN Map(<<>>)
       ELSE Str(line.val)
  ELSE IF kids = <<>> THEN Null
  ELSE IF kids[1].dash THEN ParseSeq(kids, kids[1].ind)
  ELSE ParseMap(kids, kids[1].ind)

ParseMap(lines, col) ==
  LET S  == KeyLines(lines, col)
      at == Ascending(S)
  IN  Map([k \in 1..Cardinality(S) |->
             Item(lines[at[k]].key,
                  ParseValue(lines[at[k]], Tail(Chunk(lines, S, at[k]))))])

ParseSeq(lines, col) ==
  LET S  == DashLines(lines, col)
      at == Ascending(S)
  IN  List([k \in 1..Cardinality(S) |-> ParseMap(Chunk(lines, S, at[k]), col)])

\* yaml.safe_load(text) raises yaml.YAMLError exactly when YamlError holds.
YamlError(text) ==
  /\ text # <<>>
  /\ IF text[1].dash THEN ~SeqOk(text, text[1].ind)
     ELSE ~MapOk(text, text[1].ind, FALSE)

\* yaml.safe_load(text) for a text it accepts.
YamlLoad(text) ==
  IF text = <<>> THEN Null
  ELSE IF text[1].dash THEN ParseSeq(text, text[1].ind)
  ELSE ParseMap(text, text[1].ind)

(* ----------------------- pipeline configuration ------------------------ *)

\* The dict built by create_pipeline_yaml.
pipeline_config(dest) ==
  Map(<< Item("steps", List(<<
    Map(<< Item("step", Str(<<"S", "e", "g", "m", "e", "n", "t", "a", "t", "i", "o", "n">>)),
           Item("settings", Map(<<
             Item("model", Str(<<"y", "o", "l", "o">>)),
             Item("model_settings", Map(<<
               Item("model", Str(<<"R", "i", "k", "s", "a", "r", "k", "i", "v", "e", "t", "/", "y", "o", "l", "o", "v", "9", "-", "l", "i", "n", "e", "s", "-", "w", "i", "t", "h", "i", "n", "-", "r", "e", "g", "i", "o", "n", "s", "-", "1">>))
             >>)) >>)) >>),
    Map(<< Item("step", Str(<<"T", "e", "x", "t", "R", "e", "c", "o", "g", "n", "i", "t", "i", "o", "n">>)),
           Item("settings", Map(<<
             Item("model", Str(<<"T", "r", "O", "C", "R">>)),
             Item("model_settings", Map(<<
               Item("model", Str(<<"R", "i", "k", "s", "a", "r", "k", "i", "v", "e", "t", "/", "t", "r", "o", "c", "r", "-", "b", "a", "s", "e", "-", "h", "a", "n", "d", "w", "r", "i", "t", "t", "e", "n", "-", "h", "i", "s", "t", "-", "s", "w", "e", "-", "2">>))
             >>)) >>)) >>),
    Map(<< Item("step", Str(<<"O", "r", "d", "e", "r", "L", "i", "n", "e", "s">>)) >>),
    Map(<< Item("step", Str(<<"E", "x", "p", "o", "r", "t">>)),
           Item("settings", Map(<<
             Item("format", Str(<<"t", "x", "t">>)),
             Item("dest", Str(dest)) >>)) >>)
  >>)) >>)

\* create_pipeline_yaml(output_dir): the default configuration as text.
create_pipeline_yaml(dest) == YamlDump(pipeline_config(dest))

\* The destination named by a configuration, as mock_run_pipeline finds it:
\* the dest setting of the first Export step that has settings.
ExportDest(config) ==
  LET steps == Get(config, "steps")
      I == IF steps.tag # "seq" THEN {}
           ELSE {i \in 1..Len(steps.items) :
                   /\ Get(steps.items[i], "step") = Str(<<"E", "x", "p", "o", "r", "t">>)
                   /\ HasKey(steps.items[i], "settings")}
  IN  IF I = {} THEN Null
      ELSE Get(Get(steps.items[CHOOSE i \in I : \A j \in I : i <= j],
                   "settings"), "dest")

(* --------------------------- mock transcriber -------------------------- *)

DemoText1 ==
  <<
    77, 111, 110, 109, 111, 117, 116, 104, 32, 100, 101, 110, 32, 50, 57, 32, 49, 56, 56, 50,
    46, 10, 10, 80, 108, 97, 116, 115, 107, 97, 100, 101, 32, 83, 121, 115, 116, 101, 114, 32,
    101, 109, 111, 116, 32, 83, 118, 229, 103, 101, 114, 10, 72, 229, 32, 103, 111, 100, 116,
    32, 228, 114, 32, 109, 105, 110, 32, 246, 110, 115, 107, 97, 110, 10, 74, 97, 103, 32,
    102, 229, 114, 32, 229, 116, 101, 114, 105, 103, 101, 110, 32, 103, 246, 114, 97, 32, 102,
    246, 114, 115, 246, 107, 101, 116, 10, 97, 116, 116, 32, 115, 228, 110, 100, 97, 32, 101,
    100, 101, 114, 32, 98, 114, 101, 102, 44, 32, 106, 97, 103, 32, 104, 97, 114, 10, 102,
    246, 114, 117, 116, 32, 115, 107, 114, 105, 102, 118, 105, 116, 116, 32, 109, 101, 110,
    32, 101, 106, 32, 101, 114, 104, 97, 108, 108, 101, 116, 116, 10, 110, 229, 103, 111, 116,
    116, 32, 119, 229, 114, 32, 102, 114, 229, 110, 32, 101, 100, 101, 114, 32, 118, 97, 114,
    46, 32, 118, 97, 114, 102, 246, 114, 10, 106, 97, 103, 32, 116, 97, 103, 101, 114, 32,
    100, 101, 116, 32, 102, 246, 114, 32, 116, 114, 111, 108, 105, 103, 116, 32, 97, 116, 116,
    10, 98, 114, 101, 102, 118, 101, 110, 32, 105, 99, 107, 101, 32, 104, 97, 114, 32, 103,
    229, 116, 116, 32, 102, 114, 97, 109, 46, 10, 106, 97, 103, 32, 104, 97, 114, 32, 101,
    114, 105, 110, 117, 32, 100, 101, 110, 32, 115, 116, 111, 114, 97, 32, 103, 229, 102, 118,
    97, 110, 10, 97, 116, 116, 32, 104, 97, 102, 118, 97, 32, 101, 110, 32, 103, 111, 100, 32,
    104, 101, 108, 115, 97, 32, 105, 110, 116, 105, 108, 108, 10, 115, 107, 114, 105, 102,
    118, 97, 110, 100, 101, 32, 100, 97, 103, 44, 32, 111, 99, 104, 32, 246, 110, 115, 107,
    108, 105, 103, 116, 10, 118, 111, 114, 111, 32, 97, 116, 116, 32, 100, 101, 115, 115, 97,
    32, 114, 97, 100, 101, 114, 32, 116, 114, 101, 102, 97, 114, 10, 101, 100, 101, 114, 32,
    118, 105, 100, 32, 115, 97, 109, 109, 97, 32, 103, 111, 100, 97, 32, 103, 111, 102, 118,
    97, 46, 10, 111, 99, 104, 32, 106, 97, 103, 32, 102, 229, 114, 32, 246, 110, 115, 107, 97,
    32, 101, 100, 101, 114, 32, 108, 121, 99, 107, 97, 10, 112, 229, 32, 100, 101, 116, 32,
    110, 121, 97, 32, 229, 114, 97, 116, 116, 32, 115, 97, 109, 116, 32, 103, 111, 100, 10,
    102, 111, 114, 116, 115, 228, 116, 116, 110, 105, 110, 103, 32, 112, 229, 32, 100, 101,
    116, 115, 97, 109, 109, 97, 46
  >>

DemoText2 ==
  <<
    83, 116, 111, 99, 107, 104, 111, 108, 109, 32, 100, 101, 110, 32, 49, 53, 32, 106, 117,
    108, 105, 32, 49, 56, 55, 54, 10, 32, 32, 32, 32, 32, 32, 32, 32, 32, 32, 32, 32, 10, 75,
    228, 114, 97, 32, 83, 121, 115, 116, 101, 114, 33, 10, 72, 106, 228, 114, 116, 108, 105,
    103, 116, 32, 116, 97, 99, 107, 32, 102, 246, 114, 32, 68, 105, 116, 116, 32, 98, 114,
    101, 102, 10, 115, 111, 109, 32, 106, 97, 103, 32, 109, 111, 116, 116, 111, 103, 32, 105,
    32, 103, 229, 114, 46, 32, 68, 101, 116, 10, 103, 108, 228, 100, 101, 114, 32, 109, 105,
    103, 32, 109, 121, 99, 107, 101, 116, 32, 97, 116, 116, 32, 104, 246, 114, 97, 10, 97,
    116, 116, 32, 68, 117, 32, 111, 99, 104, 32, 102, 97, 109, 105, 108, 106, 101, 110, 32,
    109, 229, 114, 32, 118, 228, 108, 46, 10, 72, 228, 114, 32, 105, 32, 83, 116, 111, 99,
    107, 104, 111, 108, 109, 32, 228, 114, 32, 118, 228, 100, 114, 101, 116, 10, 118, 97, 99,
    107, 101, 114, 116, 32, 109, 101, 110, 32, 109, 121, 99, 107, 101, 116, 32, 118, 97, 114,
    109, 116, 10, 100, 101, 115, 115, 97, 32, 100, 97, 103, 97, 114, 46, 32, 74, 97, 103, 32,
    104, 111, 112, 112, 97, 115, 10, 107, 117, 110, 110, 97, 32, 98, 101, 115, 246, 107, 97,
    32, 69, 100, 101, 114, 32, 105, 32, 65, 117, 103, 117, 115, 116, 105, 10, 111, 109, 32,
    97, 108, 108, 116, 32, 103, 229, 114, 32, 115, 111, 109, 32, 112, 108, 97, 110, 101, 114,
    97, 116, 46, 10, 72, 228, 108, 115, 97, 32, 97, 108, 108, 97, 32, 102, 114, 229, 110, 32,
    109, 105, 103, 33, 10, 68, 105, 110, 32, 116, 105, 108, 108, 103, 105, 102, 110, 101, 32,
    98, 114, 111, 100, 101, 114, 44, 10, 67, 97, 114, 108
  >>

\* MockTranscriber.demo_texts (code points of the two letters).
demo_texts == <<DemoText1, DemoText2>>

\* A transcriber that hashes the whole path instead of the file name.
image_name_full_path(image_path) == image_path

\* image_name = os.path.basename(image_path)
image_name(image_path) == Basename(image_path)

\* A transcriber that hashes the file name without its extension.
hash_value_stem(name) == SumOrd(SplitextRoot(name))

\* hash_value = sum(ord(c) for c in image_name)
hash_value(name) == SumOrd(name)

\* text_index = hash_value % len(self.demo_texts)
text_index(name) == hash_value(name) % Len(demo_texts)

\* A transcriber that appends ".txt" to the whole file name.
mock_output_path_keeps_extension(image_path, out_dir) ==
  PathJoin(out_dir, Basename(image_path) \o TxtSuffix)

\* output_path = os.path.join(output_dir, f"{base_name}.txt")
mock_output_path(image_path, out_dir) ==
  PathJoin(out_dir, SplitextRoot(Basename(image_path)) \o TxtSuffix)

\* The directories os.makedirs(d, exist_ok=True) leaves in place.
Makedirs(dirs, d) ==
  dirs \cup {d} \cup {SubSeq(d, 1, i - 1) : i \in {j \in 2..Len(d) : d[j] = "/"}}

\* File f with content c added to (or replaced in) the files fs.
WriteFile(fs, f, c) == (f :> c) @@ fs

\* MockTranscriber.transcribe: the files and directories it leaves and the
\* values of its locals.
transcribe(image_path, out_dir, fs, dirs) ==
  LET name == image_name(image_path)
      idx  == text_index(name)
      path == mock_output_path(image_path, out_dir)
  IN  [files |-> WriteFile(fs, path, Utf8Encode(demo_texts[idx + 1])),
       dirs |-> Makedirs(dirs, out_dir),
       image_name |-> name,
       text_index |-> idx,
       output_path |-> path]

(* ------------------------------ exceptions ----------------------------- *)

Text(t) == <<t>>

NoText == <<>>

Exc(type, msg) == [type |-> type, msg |-> msg, stdout |-> NoText, stderr |-> NoText]

\* subprocess.CalledProcessError carries the captured streams.
CalledProcessError(out, err) ==
  [type |-> "CalledProcessError", msg |-> Text("non-zero exit status"),
   stdout |-> out, stderr |-> err]

NoExc == Exc("none", NoText)

\* The base class of each exception class that can occur.
Super ==
  "ModuleNotFoundError" :> "ImportError" @@ "ImportError" :> "Exception" @@
  "AttributeError" :> "Exception" @@ "TypeError" :> "Exception" @@
  "FileNotFoundError" :> "OSError" @@ "OSError" :> "Exception" @@
  "YAMLError" :> "Exception" @@ "RuntimeError" :> "Exception" @@
  "IsADirectoryError" :> "OSError" @@ "UnicodeDecodeError" :> "Exception" @@
  "CalledProcessError" :> "Exception" @@ "Exception" :> "BaseException"

RECURSIVE IsSubclass(_, _)
IsSubclass(type, class) ==
  \/ type = class
  \/ type \in DOMAIN Super /\ IsSubclass(Super[type], class)

\* An except clause for the given classes handles e.
Catches(classes, e) == \E c \in classes : IsSubclass(e.type, c)

\* traceback.format_exc()
format_exc(e) == <<"Traceback (most recent call last):", e.type>> \o e.msg

(* --------------------------- run_transcription ------------------------- *)

\* The body of the inner try (the import, the read of the configuration,
\* Pipeline(...) and pipeline.run): the statement that raises and what it
\* raises, NoExc when the body reaches its return.  lib tells what the
\* import finds; env holds the outcomes of the calls into the environment.
PythonApi(lib, pipeline_path, fs, env) ==
  IF lib = "missing"
  THEN [stage |-> "import",
        exc |-> Exc("ModuleNotFoundError", Text("No module named 'htrflow'"))]
  ELSE IF lib = "no_pipeline"
  THEN [stage |-> "import",
        exc |-> Exc("ImportError", Text("cannot import name 'Pipeline'"))]
  ELSE IF pipeline_path \notin DOMAIN fs
  THEN [stage |-> "open", exc |-> Exc("FileNotFoundError", env.msg)]
  ELSE IF env.open # "ok"
  THEN [stage |-> "open", exc |-> Exc(env.open, env.msg)]
  ELSE IF YamlError(fs[pipeline_path])
  THEN [stage |-> "load", exc |-> Exc("YAMLError", env.msg)]
  ELSE IF env.ctor # "ok"
  THEN [stage |-> "ctor", exc |-> Exc(env.ctor, env.msg)]
  ELSE IF env.run = "CalledProcessError"
  THEN [stage |-> "run", exc |-> CalledProcessError(env.out, env.err)]
  ELSE IF env.run # "ok"
  THEN [stage |-> "run", exc |-> Exc(env.run, env.msg)]
  ELSE [stage |-> "return", exc |-> NoExc]

\* The classes of the inner except clause.
InnerCaught == {"ImportError", "AttributeError"}

\* command = f"htrflow pipeline {pipeline_path} {image_path}"
command(pipeline_path, image_path) ==
  <<"h", "t", "r", "f", "l", "o", "w", " ", "p", "i", "p", "e", "l", "i", "n", "e", " ">> \o pipeline_path \o <<" ">> \o image_path

\* The exception subprocess.run(..., check=True) raises, NoExc when the
\* process exits with status 0.
SubprocessRun(env) ==
  IF env.launch # "ok" THEN Exc(env.launch, env.msg)
  ELSE IF env.code # 0 THEN CalledProcessError(env.out, env.err)
  ELSE NoExc

\* A handler that drops the captured standard output.
CalledProcessResult_no_stdout(e) == <<FALSE, NoText, e.stderr>>

\* except subprocess.CalledProcessError as e
CalledProcessResult(e) == <<FALSE, e.stdout, e.stderr>>

\* A last except clause that handles I/O errors only.
OuterCaught_OSError == {"OSError"}

\* The classes of the last except clause.
OuterCaught == {"Exception"}

\* except Exception as e
ExceptionResult(e) == <<FALSE, NoText, e.msg \o <<"\n", "\n">> \o format_exc(e)>>

\* run_transcription(image_path, pipeline_path): the triple it returns and
\* the course it took; outcome is "raised" when an exception leaves it.
run_transcription(img, pipeline_path, lib, fs, env) ==
  LET body     == PythonApi(lib, pipeline_path, fs, env)
      api      == body.exc
      fallback == api # NoExc /\ Catches(InnerCaught, api)
      pending  == IF api = NoExc THEN NoExc
                  ELSE IF fallback THEN SubprocessRun(env)
                  ELSE api
      handled  == \/ pending = NoExc
                  \/ Catches({"CalledProcessError"}, pending)
                  \/ Catches(OuterCaught, pending)
      course   == [api |-> api,
                   stage |-> body.stage,
                   warned |-> fallback,
                   command |-> IF fallback THEN command(pipeline_path, img) ELSE <<>>,
                   launched |-> fallback /\ env.launch = "ok",
                   exit |-> IF fallback /\ env.launch = "ok" THEN env.code ELSE -1,
                   out |-> IF fallback /\ env.launch = "ok" THEN env.out ELSE NoText,
                   err |-> IF fallback /\ env.launch = "ok" THEN env.err ELSE NoText,
                   pending |-> pending,
                   outcome |-> IF handled THEN "returned" ELSE "raised"]
  IN  [course |-> course,
       value |->
         IF pending = NoExc
         THEN IF fallback THEN <<TRUE, env.out, env.err>>
              ELSE <<TRUE, Text("Transkribering slutford med Python API"), NoText>>
         ELSE IF Catches({"CalledProcessError"}, pending)
         THEN CalledProcessResult(pending)
         ELSE IF Catches(OuterCaught, pending) THEN ExceptionResult(pending)
         ELSE <<FALSE, NoText, NoText>>]

(* ------------------------------ the session ---------------------------- *)

VARIABLES
  htrflow,        \* what "import htrflow" finds: "missing", "no_pipeline", "ok"
  run,            \* number of script runs started
  pc,             \* position of the current run of main
  temp_dir,       \* temp_dir of the current run
  files,          \* the files below temp_dir: path -> content
  dirs,           \* the directories at and below temp_dir
  use_demo,       \* the "Anvand demo-lage" checkbox
  uploaded_file,  \* uploaded_file.name, <<>> when nothing is uploaded
  custom_pipeline,\* the text written by "Uppdatera konfiguration" in this run
  messages,       \* the notices of the run (st.info, st.warning, st.success)
  mock_call,      \* the locals of the last MockTranscriber.transcribe call
  mock_log,       \* the mock transcriptions of earlier runs: <<name, bytes written>>
  call,           \* the course of the last run_transcription call
  result,         \* success, stdout, stderr of the run
  shown           \* what the run showed for the transcription

vars ==
  <<htrflow, run, pc, temp_dir, files, dirs, use_demo, uploaded_file,
    custom_pipeline, messages, mock_call, mock_log, call, result, shown>>

\* tempfile.mkdtemp(): a directory that did not exist before.
mkdtemp(n) == <<"/", "t", "m", "p", "/", "w">> \o <<<<"0", "1", "2", "3", "4", "5", "6", "7", "8", "9">>[n + 1]>>

output_dir == PathJoin(temp_dir, <<"o", "u", "t", "p", "u", "t", "s">>)

pipeline_path == PathJoin(temp_dir, <<"p", "i", "p", "e", "l", "i", "n", "e", ".", "y", "a", "m", "l">>)

mock_module_path == PathJoin(temp_dir, <<"m", "o", "c", "k", "_", "h", "t", "r", "f", "l", "o", "w", ".", "p", "y">>)

image_path == PathJoin(temp_dir, uploaded_file)

\* base_name = os.path.splitext(uploaded_file.name)[0]
base_name == SplitextRoot(uploaded_file)

\* output_file = os.path.join(output_dir, f"{base_name}.txt")
output_file == PathJoin(output_dir, base_name \o TxtSuffix)

\* The source text of the mock module, as one unit.
mock_code == <<"mock_htrflow">>

\* Names of uploaded files; the uploader accepts jpg, jpeg, png, tif, tiff.
FileNames == {<<"l", "e", "t", "t", "e", "r", "1", ".", "p", "n", "g">>, <<"l", "e", "t", "t", "e", "r", "1", ".", "j", "p", "e", "g">>, <<"a", ".", "b", ".", "t", "i", "f">>}

\* uploaded_file.getbuffer()
ImageBytes == <<137, 80, 78, 71>>

\* A destination a user may name instead of output_dir.
OtherDest == <<"/", "d", "a", "t", "a", "/", "o", "u", "t">>

\* Documents a user may leave in the text area that starts out with the
\* default: the default itself, the default with another dest, the default
\* without its Export step, and a text that opens a flow sequence and never
\* closes it.
CustomDocuments(content) ==
  { content,
    [i \in DOMAIN content |->
       IF content[i].key = "dest" THEN [content[i] EXCEPT !.val = OtherDest]
       ELSE content[i]],
    SubSeq(content, 1, Len(content) - 3),
    <<Line(0, FALSE, "steps", TRUE, <<"[">>)>> \o Tail(content) }

\* Seconds of time.sleep(2 + random.random() * 3), rounded down.
Delays == {2, 4}

\* Outcomes of the calls run_transcription makes into its environment.  The
\* first call that raises ends the body of the inner try, so at most one of
\* open, Pipeline(...) and pipeline.run fails; a process that cannot be
\* launched has no exit status and no output.
Environments ==
  {e \in [open   : {"ok", "OSError"},
          ctor   : {"ok", "TypeError", "AttributeError"},
          run    : {"ok", "AttributeError", "RuntimeError", "CalledProcessError"},
          launch : {"ok", "OSError"},
          code   : {0, 1},
          out    : {NoText, Text("out")},
          err    : {NoText, Text("err")},
          msg    : {NoText, Text("msg")}] :
     /\ Cardinality({c \in {"open", "ctor", "run"} : e[c] # "ok"}) <= 1
     /\ e.launch # "ok" => e.code = 0 /\ e.out = NoText /\ e.err = NoText}

\* What the engine may leave for an image: nothing, the text in UTF-8 or in
\* Latin-1 in the output directory, the text in a subdirectory of it, or
\* only a file of another name.
EngineEffects ==
  {[where |-> "none", content |-> <<>>],
   [where |-> "top", content |-> Utf8Encode(<<72, 229, 10>>)],
   [where |-> "top", content |-> <<72, 229, 10>>],
   [where |-> "nested", content |-> Utf8Encode(<<72, 229, 10>>)],
   [where |-> "other", content |-> <<123, 125>>]}

\* The files after the engine wrote its output for an image: a nested
\* output goes to a subdirectory named after the directory of the image.
EngineWrites(fs, img, where, content) ==
  LET id == SplitextRoot(Basename(img))
      sub == PathJoin(output_dir, Basename(Dirname(img)))
  IN  CASE where = "none"   -> fs
        [] where = "top"    -> WriteFile(fs, PathJoin(output_dir, id \o TxtSuffix), content)
        [] where = "nested" -> WriteFile(fs, PathJoin(sub, id \o TxtSuffix), content)
        [] where = "other"  -> WriteFile(fs, PathJoin(output_dir, id \o <<".", "j", "s", "o", "n">>), content)

EngineDirs(ds, img, where) ==
  IF where = "nested"
  THEN Makedirs(ds, PathJoin(output_dir, Basename(Dirname(img))))
  ELSE ds

NoDocument == [written |-> FALSE, text |-> <<>>]

\* The notices of the app: the streamlit call, the part of the app that
\* makes it, and the text (in ASCII).
Notice(level, part, text) == [level |-> level, part |-> part, text |-> text]

SuccessUpdated == Notice("success", "sidebar", "Konfigurationen har uppdaterats!")

InfoDemo == Notice("info", "demo", "Anvander demo-lage for transkribering")

InfoPythonApi == Notice("info", "run_transcription", "Anvander HTR Flow Python API")

WarningFallback ==
  Notice("warning", "run_transcription",
         "Kunde inte anvanda Python API. Forsoker med kommandoradsversionen.")

NoCall ==
  [api |-> NoExc, stage |-> "none", warned |-> FALSE, command |-> <<>>,
   launched |-> FALSE, exit |-> -1, out |-> NoText, err |-> NoText,
   pending |-> NoExc, outcome |-> "none"]

NoMockCall ==
  [image_name |-> <<>>, text_index |-> -1, output_path |-> <<>>, delay |-> 0]

NoResult == [by |-> "none", success |-> FALSE, stdout |-> NoText, stderr |-> NoText]

NotShown == [kind |-> "none"]

Init ==
  /\ htrflow \in {"missing", "no_pipeline", "ok"}
  /\ run = 0
  /\ pc = "idle"
  /\ temp_dir = <<>>
  /\ files = [p \in {} |-> <<>>]
  /\ dirs = {}
  /\ use_demo = FALSE
  /\ uploaded_file = <<>>
  /\ custom_pipeline = NoDocument
  /\ messages = {}
  /\ mock_call = NoMockCall
  /\ mock_log = {}
  /\ call = NoCall
  /\ result = NoResult
  /\ shown = NotShown

\* main up to the sidebar: a fresh workspace with the outputs directory, the
\* default pipeline.yaml and the mock module; the demo checkbox is read.
StartRun ==
  /\ pc \in {"idle", "crashed"}
  /\ run < MaxRuns
  /\ run' = run + 1
  /\ temp_dir' = mkdtemp(run + 1)
  /\ dirs' = Makedirs({temp_dir'}, output_dir')
  /\ files' = WriteFile(WriteFile([p \in {} |-> <<>>], pipeline_path',
                                  create_pipeline_yaml(output_dir')),
                        mock_module_path', mock_code)
  /\ use_demo' \in BOOLEAN
  /\ uploaded_file' = <<>>
  /\ custom_pipeline' = NoDocument
  /\ messages' = {}
  /\ mock_call' = NoMockCall
  /\ mock_log' = IF mock_call = NoMockCall THEN mock_log
                 ELSE mock_log \cup {<<uploaded_file, files[mock_call.output_path]>>}
  /\ call' = NoCall
  /\ result' = NoResult
  /\ shown' = NotShown
  /\ pc' = "sidebar"
  /\ UNCHANGED htrflow

\* "Uppdatera konfiguration": the text of the text area replaces pipeline.yaml.
UpdateConfiguration ==
  /\ pc = "sidebar"
  /\ \E text \in CustomDocuments(create_pipeline_yaml(output_dir)) :
       /\ custom_pipeline' = [written |-> TRUE, text |-> text]
       /\ files' = WriteFile(files, pipeline_path, text)
  /\ messages' = messages \cup {SuccessUpdated}
  /\ pc' = "upload"
  /\ UNCHANGED <<htrflow, run, temp_dir, dirs, use_demo, uploaded_file,
                 mock_call, mock_log, call, result, shown>>

\* The configuration is not customised, or the button is not pressed.
KeepConfiguration ==
  /\ pc = "sidebar"
  /\ pc' = "upload"
  /\ UNCHANGED <<htrflow, run, temp_dir, files, dirs, use_demo, uploaded_file,
                 custom_pipeline, messages, mock_call, mock_log, call, result, shown>>

\* Nothing is uploaded: the run ends.
NoUpload ==
  /\ pc = "upload"
  /\ pc' = "idle"
  /\ UNCHANGED <<htrflow, run, temp_dir, files, dirs, use_demo, uploaded_file,
                 custom_pipeline, messages, mock_call, mock_log, call, result, shown>>

\* The uploaded file is saved as temp_dir/<name>.
SaveUpload ==
  /\ pc = "upload"
  /\ \E name \in FileNames :
       /\ uploaded_file' = name
       /\ files' = WriteFile(files, PathJoin(temp_dir, name), ImageBytes)
  /\ pc' = "button"
  /\ UNCHANGED <<htrflow, run, temp_dir, dirs, use_demo, custom_pipeline, messages,
                 mock_call, mock_log, call, result, shown>>

\* "Transkribera bilden" is not pressed: the run ends.
NoTranscription ==
  /\ pc = "button"
  /\ pc' = "idle"
  /\ UNCHANGED <<htrflow, run, temp_dir, files, dirs, use_demo, uploaded_file,
                 custom_pipeline, messages, mock_call, mock_log, call, result, shown>>

\* The demo branch: the mock module is loaded and MockTranscriber.transcribe
\* is called; every exception becomes a failed result.
DemoTranscription ==
  /\ pc = "button"
  /\ use_demo
  /\ \E io \in {"ok", "OSError"}, delay \in Delays :
       LET t == transcribe(image_path, output_dir, files, dirs)
           e == IF mock_module_path \notin DOMAIN files
                THEN Exc("FileNotFoundError", Text("mock_htrflow.py"))
                ELSE IF io # "ok" THEN Exc(io, Text("msg"))
                ELSE NoExc
       IN  IF e = NoExc
           THEN /\ files' = t.files
                /\ dirs' = t.dirs
                /\ mock_call' = [image_name |-> t.image_name,
                                 text_index |-> t.text_index,
                                 output_path |-> t.output_path,
                                 delay |-> delay]
                /\ result' = [by |-> "demo", success |-> TRUE,
                              stdout |-> Text("Demo-transkribering slutford."),
                              stderr |-> NoText]
           ELSE /\ result' = [by |-> "demo", success |-> FALSE, stdout |-> NoText,
                              stderr |-> Text("Fel vid korning av demo-transkribering: ")
                                           \o e.msg \o <<"\n">> \o format_exc(e)]
                /\ UNCHANGED <<files, dirs, mock_call>>
  /\ messages' = messages \cup {InfoDemo}
  /\ pc' = "outcome"
  /\ UNCHANGED <<htrflow, run, temp_dir, use_demo, uploaded_file, custom_pipeline,
                 mock_log, call, shown>>

\* The real branch: run_transcription, with what the engine leaves behind
\* when pipeline.run or the subprocess got to run.
RealTranscription ==
  /\ pc = "button"
  /\ ~use_demo
  /\ \E env \in Environments, effect \in EngineEffects :
       LET r == run_transcription(image_path, pipeline_path, htrflow, files, env)
           engine_ran == r.course.stage \in {"run", "return"} \/ r.course.launched
       IN  /\ call' = r.course
           /\ files' = IF engine_ran
                       THEN EngineWrites(files, image_path, effect.where, effect.content)
                       ELSE files
           /\ dirs' = IF engine_ran THEN EngineDirs(dirs, image_path, effect.where)
                      ELSE dirs
           /\ messages' = messages
                 \cup (IF r.course.stage # "import" THEN {InfoPythonApi} ELSE {})
                 \cup (IF r.course.warned THEN {WarningFallback} ELSE {})
           /\ IF r.course.outcome = "returned"
              THEN /\ result' = [by |-> "real", success |-> r.value[1],
                                 stdout |-> r.value[2], stderr |-> r.value[3]]
                   /\ pc' = "outcome"
              ELSE /\ result' = NoResult
                   /\ pc' = "crashed"
  /\ UNCHANGED <<htrflow, run, temp_dir, use_demo, uploaded_file, custom_pipeline,
                 mock_call, mock_log, shown>>

\* A lookup that opens the output file without testing for it.
path_exists_always(fs, ds, p) == TRUE

\* os.path.exists(p)
path_exists(fs, ds, p) == p \in DOMAIN fs \/ p \in ds

\* The files os.walk(output_dir) finds.
all_files(fs, root) == {p \in DOMAIN fs : IsUnder(p, root)}

\* The part of main after the invocation: the lookup of the output file and
\* what is shown.
Outcome(fs, ds, res, out_file, out_dir) ==
  IF res.success
  THEN IF path_exists(fs, ds, out_file)
       THEN IF out_file \notin DOMAIN fs
            THEN [kind |-> "raised", exc |-> IF out_file \in ds THEN "IsADirectoryError"
                                             ELSE "FileNotFoundError"]
            ELSE IF ~Utf8Valid(fs[out_file])
            THEN [kind |-> "raised", exc |-> "UnicodeDecodeError"]
            ELSE [kind |-> "text", transcribed_text |-> Utf8Decode(fs[out_file])]
       ELSE [kind |-> "not_found", searched |-> out_file,
             listing |-> all_files(fs, out_dir)]
  ELSE [kind |-> "failed", stdout |-> res.stdout, stderr |-> res.stderr]

ShowOutcome ==
  /\ pc = "outcome"
  /\ shown' = Outcome(files, dirs, result, output_file, output_dir)
  /\ pc' = IF shown'.kind = "raised" THEN "crashed" ELSE "idle"
  /\ UNCHANGED <<htrflow, run, temp_dir, files, dirs, use_demo, uploaded_file,
                 custom_pipeline, messages, mock_call, mock_log, call, result>>

Next ==
  \/ StartRun
  \/ UpdateConfiguration
  \/ KeepConfiguration
  \/ NoUpload
  \/ SaveUpload
  \/ NoTranscription
  \/ DemoTranscription
  \/ RealTranscription
  \/ ShowOutcome

Spec == Init /\ [][Next]_vars

(* ------------------------------ properties ----------------------------- *)

\* The destination the configuration at pipeline_path names; None when the
\* file does not load.
ConfiguredDest ==
  IF YamlError(files[pipeline_path]) THEN Null
  ELSE ExportDest(YamlLoad(files[pipeline_path]))

\* C1: whatever configuration the app has put at pipeline_path, the default
\* or the document written by "Uppdatera konfiguration", its Export step's
\* dest is the output directory of the workspace.
C1_ExportDestIsOutputDir ==
  pipeline_path \in DOMAIN files => ConfiguredDest = Str(output_dir)

\* The statement of run_transcription's inner try body in which the entry
\* point is located ("import") or constructed ("ctor") failed.
EntryPointFailed == call.stage \in {"import", "ctor"}

\* C2: whenever locating or constructing the in-process entry point fails
\* (htrflow missing, Pipeline missing, Pipeline(...) rejecting its argument),
\* the subprocess fallback "htrflow pipeline <config> <image>" is attempted
\* and that failure is not what run_transcription returns.
C2_EntryPointFailureFallsBack ==
  EntryPointFailed =>
    /\ call.warned
    /\ call.command = command(pipeline_path, image_path)
    /\ call.pending # call.api

\* The exception that ended run_transcription is not the non-zero exit of a
\* subprocess.
FailedOtherwise ==
  call.pending # NoExc /\ call.pending.type # "CalledProcessError"

\* C3: run_transcription never lets an exception through to main; whatever
\* fails (the read of the configuration, the engine, the launch of the
\* subprocess, also inside the ImportError/AttributeError handler), it
\* returns a triple, and for a failure other than a non-zero exit the triple
\* is (False, stdout, stderr) with a non-empty stderr.
C3_NeverPropagates ==
  call.stage # "none" =>
    /\ call.outcome = "returned"
    /\ result.by = "real"
    /\ FailedOtherwise => ~result.success /\ result.stderr # NoText

\* C3 witness: the import failed, the fallback could not be launched, and the
\* failure came back as a result.
C3_Witness ==
  /\ call.stage = "import"
  /\ call.warned
  /\ call.pending.type = "OSError"
  /\ result.by = "real"
  /\ ~result.success

\* C4: when the subprocess fallback ran, a non-zero exit gives
\* (False, stdout, stderr) and exit 0 gives (True, stdout, stderr), with the
\* streams exactly as captured from the process; the result is final.
C4_FallbackResult ==
  call.launched =>
    /\ result.by = "real"
    /\ result.success = (call.exit = 0)
    /\ result.stdout = call.out
    /\ result.stderr = call.err

\* C4 witness: the fallback exited with a non-zero status after writing to
\* both streams.
C4_Witness ==
  /\ call.launched
  /\ call.exit = 1
  /\ call.out # NoText
  /\ call.err # NoText
  /\ ~result.success

\* The mock transcription of the current run, as file name and bytes written.
CurrentMock ==
  IF mock_call = NoMockCall THEN {}
  ELSE {<<uploaded_file, files[mock_call.output_path]>>}

\* C5: two mock transcriptions of images with the same file name, in whatever
\* workspace and with whatever delay, write the same bytes.
C5_MockDeterministic ==
  \A a \in mock_log \cup CurrentMock, b \in mock_log \cup CurrentMock :
    a[1] = b[1] => a[2] = b[2]

\* C5 witness: a file name transcribed in an earlier run (another workspace)
\* is transcribed again.
C5_Witness ==
  /\ mock_call # NoMockCall
  /\ \E a \in mock_log : a[1] = uploaded_file

\* C6 as stated: the index the mock selects is the sum of the character
\* codes of the file name without its extension, modulo the corpus size
\* (for "letter1.png": sum(ord(c) for c in "letter1") mod 2).
C6_IndexFromStem ==
  mock_call # NoMockCall =>
    mock_call.text_index = SumOrd(SplitextRoot(uploaded_file)) % Len(demo_texts)

\* C6 amended: the index the mock selects is the sum of the character codes
\* of the file name with its extension, modulo the corpus size; for
\* "letter1.png" it is sum(ord(c) for c in "letter1.png") mod 2 = 0, the
\* first text of the corpus.
C6_IndexFromFileName ==
  mock_call # NoMockCall =>
    /\ mock_call.text_index = SumOrd(uploaded_file) % Len(demo_texts)
    /\ uploaded_file = <<"l", "e", "t", "t", "e", "r", "1", ".", "p", "n", "g">> =>
         /\ mock_call.text_index = 0
         /\ files[mock_call.output_path] = Utf8Encode(DemoText1)

\* C6 witness: the mock transcribed "letter1.png".
C6_Witness ==
  /\ mock_call # NoMockCall
  /\ uploaded_file = <<"l", "e", "t", "t", "e", "r", "1", ".", "p", "n", "g">>

\* The well-formed files named <base_name>.txt anywhere below output_dir.
Matches ==
  {p \in all_files(files, output_dir) :
     Basename(p) = base_name \o TxtSuffix /\ Utf8Valid(files[p])}

\* C7: when a successful invocation has finished and a file <id>.txt with
\* content C lies anywhere below the output root, at the top or nested, the
\* lookup shows C.
C7_LookupFindsNested ==
  (shown.kind # "none" /\ result.success /\ Matches # {}) =>
    /\ shown.kind = "text"
    /\ \E p \in Matches : shown.transcribed_text = Utf8Decode(files[p])

\* C8: after a syntactically invalid document was written by "Uppdatera
\* konfiguration", the default configuration is the one in place, the user
\* got a warning, and a transcription does not fail on loading it.
C8_InvalidDocumentFallsBackToDefault ==
  (custom_pipeline.written /\ YamlError(custom_pipeline.text)) =>
    /\ files[pipeline_path] = create_pipeline_yaml(output_dir)
    /\ \E m \in messages : m.level = "warning" /\ m.part = "sidebar"
    /\ call.stage # "load"

\* C9: when the invocation succeeded and no file <id>.txt lies below the
\* output root (also when the root is empty), the lookup reports the failure
\* with the listing of all files below the root and raises nothing.
C9_MissingOutputReported ==
  (/\ shown.kind # "none"
   /\ result.success
   /\ ~\E p \in all_files(files, output_dir) : Basename(p) = base_name \o TxtSuffix)
  => /\ shown.kind = "not_found"
     /\ shown.searched = PathJoin(output_dir, base_name \o TxtSuffix)
     /\ shown.listing = {p \in DOMAIN files : IsUnder(p, output_dir)}
     /\ pc # "crashed"

\* C9 witness: a successful invocation left the output root empty.
C9_Witness ==
  /\ shown.kind = "not_found"
  /\ result.success
  /\ all_files(files, output_dir) = {}

\* C10: in demo mode, when transcribe returned, it wrote the file the lookup
\* reads, output_dir exists, and the text shown is the corpus entry the mock
\* selected.
C10_DemoOutputFound ==
  (result.by = "demo" /\ result.success) =>
    /\ mock_call.output_path = output_file
    /\ output_dir \in dirs
    /\ output_file \in DOMAIN files
    /\ shown.kind # "none" =>
         /\ shown.kind = "text"
         /\ shown.transcribed_text = demo_texts[mock_call.text_index + 1]

\* C10 witness: a demo transcription was shown.
C10_Witness ==
  /\ result.by = "demo"
  /\ result.success
  /\ shown.kind = "text"

====
